---- MODULE Spec2Model ----
\* A model of src/src/PID.py: the PIDController and the two accumulators it
\* owns (Integrator, Differentiator).
\*
\* Numbers.  Python floats are modelled as exact rationals <<n, d>> (d > 0, in
\* lowest terms); with the inputs below every value the code computes is a
\* dyadic rational of small magnitude, which a double represents exactly.
\* Timestamps.  A datetime is modelled as <<s>>, s the whole seconds since a
\* fixed base instant; None is <<>>.  datetime.now() is the wall clock, which
\* may repeat a value or step backwards, so a call may read any instant.
\* Objects.  Integrator and Differentiator instances live in two heaps
\* (sequences indexed by reference); a controller holds references.
EXTENDS Integers, Sequences, FiniteSets, TLC

VARIABLES
    ctl,              \* slot -> None | the PIDController bound to that name
    integrators,      \* heap of Integrator objects
    differentiators,  \* heap of Differentiator objects
    result,           \* the last operation: its arguments and its outcome
    ncalls,           \* slot -> number of get_output calls made on it
    log               \* history variable: the calls made so far on each object,
                      \* with arguments and outcome; no program state reads it

vars == <<ctl, integrators, differentiators, result, ncalls, log>>

\* ---------------------------------------------------------------- bounds
MaxCalls == 3
MaxTime == 2
PairMaxCalls == 2
PairMaxTime == 1
GainMaxCalls == 1
GainMaxTime == 1

\* ------------------------------------------------------------ rationals
None == <<>>

Abs(n) == IF n < 0 THEN -n ELSE n

RECURSIVE GCD(_, _)
GCD(a, b) == IF b = 0 THEN a ELSE GCD(b, a % b)

Norm(n, d) ==
    LET s == IF d < 0 THEN -1 ELSE 1
        g == GCD(Abs(n), Abs(d))
    IN  <<(s * n) \div g, (s * d) \div g>>

R(n) == <<n, 1>>
Half == <<1, 2>>
Zero == <<0, 1>>

RAdd(a, b) == Norm(a[1] * b[2] + b[1] * a[2], a[2] * b[2])
RSub(a, b) == Norm(a[1] * b[2] - b[1] * a[2], a[2] * b[2])
RMul(a, b) == Norm(a[1] * b[1], a[2] * b[2])
\* float / float; the caller handles a zero divisor (ZeroDivisionError)
RDiv(a, b) == Norm(a[1] * b[2], a[2] * b[1])

\* ------------------------------------------------------------ timestamps
datetime(s) == <<s>>
\* (a - b).total_seconds()
total_seconds(a, b) == R(a[1] - b[1])
\* bool(x) for an Optional[datetime]: a datetime instance is always truthy
Truthy(x) == x /= None

\* ------------------------------------------------------------ Integrator
Integrator_init(initial_value, approximation_scheme) ==
    [ approximation_scheme |-> approximation_scheme,
      last_integrand       |-> None,
      value                |-> initial_value,
      last_compute_time    |-> None ]

\* variant: a backwards clock step is clamped to a zero-length interval
compute_next_term_clamped(self, integrand, current_time) ==
    LET average_integrand == RMul(Half, RAdd(integrand, self.last_integrand))
        elapsed == total_seconds(current_time, self.last_compute_time)
        time_delta_s == IF elapsed[1] < 0 THEN Zero ELSE elapsed
        value == IF Truthy(self.last_compute_time)
                 THEN RAdd(self.value, RMul(average_integrand, time_delta_s))
                 ELSE self.value
    IN  [ self |-> [self EXCEPT !.value = value,
                                !.last_integrand = integrand,
                                !.last_compute_time = current_time],
          status |-> "ok",
          ret |-> value ]

\* returns the mutated object and the returned value
compute_next_center_approx_riemann_sum_term(self, integrand, current_time) ==
    LET average_integrand == RMul(Half, RAdd(integrand, self.last_integrand))
        time_delta_s == total_seconds(current_time, self.last_compute_time)
        value == IF Truthy(self.last_compute_time)
                 THEN RAdd(self.value, RMul(average_integrand, time_delta_s))
                 ELSE self.value
    IN  [ self |-> [self EXCEPT !.value = value,
                                !.last_integrand = integrand,
                                !.last_compute_time = current_time],
          status |-> "ok",
          ret |-> value ]

Integrator_compute(self, integrand, current_time) ==
    IF self.approximation_scheme = "center-approx"
    THEN compute_next_center_approx_riemann_sum_term(self, integrand, current_time)
    ELSE [ self |-> self, status |-> "KeyError", ret |-> None ]

\* -------------------------------------------------------- Differentiator
Differentiator_init(initial_value) ==
    [ last_value |-> initial_value, last_time |-> None ]

\* variant: the cold start returns the current input, as the docstring words it
Differentiator_compute_cold_current(self, current_value, current_time) ==
    LET stored == [self EXCEPT !.last_value = current_value,
                               !.last_time = current_time]
    IN  IF Truthy(self.last_time)
        THEN LET df == RSub(current_value, self.last_value)
                 dt == total_seconds(current_time, self.last_time)
             IN  IF dt = Zero
                 THEN [ self |-> self, status |-> "ZeroDivisionError", ret |-> None ]
                 ELSE [ self |-> stored, status |-> "ok", ret |-> RDiv(df, dt) ]
        ELSE [ self |-> stored, status |-> "ok", ret |-> current_value ]

\* variant: the time is stored but the value is not, so slopes are taken
\* against a stale sample
Differentiator_compute_stale(self, current_value, current_time) ==
    LET stored == [self EXCEPT !.last_time = current_time]
    IN  IF Truthy(self.last_time)
        THEN LET df == RSub(current_value, self.last_value)
                 dt == total_seconds(current_time, self.last_time)
             IN  IF dt = Zero
                 THEN [ self |-> self, status |-> "ZeroDivisionError", ret |-> None ]
                 ELSE [ self |-> stored, status |-> "ok", ret |-> RDiv(df, dt) ]
        ELSE [ self |-> stored, status |-> "ok", ret |-> self.last_value ]

Differentiator_compute(self, current_value, current_time) ==
    LET stored == [self EXCEPT !.last_value = current_value,
                               !.last_time = current_time]
    IN  IF Truthy(self.last_time)
        THEN LET df == RSub(current_value, self.last_value)
                 dt == total_seconds(current_time, self.last_time)
             IN  IF dt = Zero
                 THEN [ self |-> self, status |-> "ZeroDivisionError", ret |-> None ]
                 ELSE [ self |-> stored, status |-> "ok", ret |-> RDiv(df, dt) ]
        ELSE [ self |-> stored, status |-> "ok", ret |-> self.last_value ]

\* --------------------------------------------------------- PIDController
GainMin == 0
GainMax == 100

Gains(p, i, d) == [p |-> p, i |-> i, d |-> d]

\* variant: the upper bound is exclusive
gains_valid_exclusive(g) ==
    \A x \in {"p", "i", "d"} : GainMin <= g[x] /\ g[x] < GainMax

\* all(0 <= getattr(_gains, x) <= 100 for x in "pid")
gains_valid(g) ==
    \A x \in {"p", "i", "d"} : GainMin <= g[x] /\ g[x] <= GainMax

\* variant: the new gains are bound before they are validated
gains_setter_bind_first(self, g) ==
    IF gains_valid(g)
    THEN [ self |-> [self EXCEPT !.gains = g], status |-> "ok" ]
    ELSE [ self |-> [self EXCEPT !.gains = g], status |-> "ValueError" ]

\* the gains property setter: binds _gains or raises ValueError
gains_setter(self, g) ==
    IF gains_valid(g)
    THEN [ self |-> [self EXCEPT !.gains = g], status |-> "ok" ]
    ELSE [ self |-> self, status |-> "ValueError" ]

\* variant: one accumulator shared by every controller (a class attribute)
FreshRef_shared(heap) == 1

\* a newly created object gets a reference no live object has
FreshRef(heap) == Len(heap) + 1

\* heap with the object at ref (re)bound to obj
Bind(heap, ref, obj) ==
    [r \in 1..(IF ref > Len(heap) THEN ref ELSE Len(heap)) |->
        IF r = ref THEN obj ELSE heap[r]]

\* PIDController(p_gain, i_gain, d_gain, setpoint) against the two heaps
PIDController_init(p_gain, i_gain, d_gain, setpoint, ints, diffs) ==
    LET blank == [ gains |-> None, setpoint |-> None,
                   integrator |-> None, differentiator |-> None ]
        set == gains_setter(blank, Gains(p_gain, i_gain, d_gain))
        iref == FreshRef(ints)
        dref == FreshRef(diffs)
    IN  IF set.status /= "ok"
        THEN [ status |-> set.status, self |-> None,
               integrators |-> ints, differentiators |-> diffs ]
        ELSE [ status |-> "ok",
               self |-> [set.self EXCEPT !.setpoint = setpoint,
                                         !.integrator = <<iref>>,
                                         !.differentiator = <<dref>>],
               integrators |-> Bind(ints, iref, Integrator_init(Zero, "center-approx")),
               differentiators |-> Bind(diffs, dref, Differentiator_init(Zero)) ]

\* _ensure_setpoint_set: TRUE when it raises
ensure_setpoint_set(self) == self.setpoint = None

\* variant: the i and d gains are exchanged
output_terms_swapped(gains, current_error, integral, derivative) ==
    LET p == RMul(R(gains.p), current_error)
        i == RMul(R(gains.d), integral)
        d == RMul(R(gains.i), derivative)
    IN  RAdd(RAdd(p, i), d)

\* p + i + d of get_output, given what the two accumulators returned
output_terms(gains, current_error, integral, derivative) ==
    LET p == RMul(R(gains.p), current_error)
        i == RMul(R(gains.i), integral)
        d == RMul(R(gains.d), derivative)
    IN  RAdd(RAdd(p, i), d)

\* get_output past the setpoint check, with datetime.now() = current_time
get_output_body(self, ints, diffs, input_value, current_time) ==
    LET current_error == RSub(self.setpoint, input_value)
        ic == Integrator_compute(ints[self.integrator[1]], current_error, current_time)
        ints1 == [ints EXCEPT ![self.integrator[1]] = ic.self]
        dc == Differentiator_compute(diffs[self.differentiator[1]],
                                     current_error, current_time)
        diffs1 == [diffs EXCEPT ![self.differentiator[1]] = dc.self]
    IN  IF ic.status /= "ok"
        THEN [ status |-> ic.status, ret |-> None,
               integrators |-> ints1, differentiators |-> diffs ]
        ELSE IF dc.status /= "ok"
        THEN [ status |-> dc.status, ret |-> None,
               integrators |-> ints1, differentiators |-> diffs1 ]
        ELSE [ status |-> "ok",
               ret |-> <<output_terms(self.gains, current_error, ic.ret, dc.ret),
                         current_error>>,
               integrators |-> ints1, differentiators |-> diffs1 ]

\* variant: no setpoint check, so None - input_value raises TypeError
get_output_unchecked(self, ints, diffs, input_value, current_time) ==
    IF self.setpoint = None
    THEN [ status |-> "TypeError", ret |-> None,
           integrators |-> ints, differentiators |-> diffs ]
    ELSE get_output_body(self, ints, diffs, input_value, current_time)

get_output(self, ints, diffs, input_value, current_time) ==
    IF ensure_setpoint_set(self)
    THEN [ status |-> "Exception", ret |-> None,
           integrators |-> ints, differentiators |-> diffs ]
    ELSE get_output_body(self, ints, diffs, input_value, current_time)

\* ---------------------------------------------------------------- inputs
Slots == {1, 2}
Times == {datetime(s) : s \in 0..MaxTime}
Setpoints == {None, R(0), R(1)}
Inputs == {R(0), R(3)}
GainChoices == {Gains(10, 100, 1), Gains(2, 3, 1), Gains(0, 100, 100), Gains(1, 1, 101)}
GainVals == {-1, 0, 2, 100, 101}
GainCube == {Gains(p, i, d) : p \in GainVals, i \in GainVals, d \in GainVals}
GainSetpoints == {None, R(1)}
GainInputs == {R(0)}
GainTimes == {datetime(s) : s \in 0..GainMaxTime}
PairGains == {Gains(2, 3, 1)}
PairSetpoint == R(1)
PairInputs == {R(0), R(1)}
PairTimes == {datetime(s) : s \in 0..PairMaxTime}
InitialValues == {Zero, R(7), <<-1, 2>>}
IntegratorSamples == {R(2), R(4), R(-1)}
DifferentiatorSamples == {R(5), R(9), R(-1)}

NoResult == [op |-> "none", slot |-> 0, status |-> "ok", args |-> None, ret |-> None]

\* --------------------------------------------------------------- actions
Init ==
    /\ ctl = [c \in Slots |-> None]
    /\ integrators = <<>>
    /\ differentiators = <<>>
    /\ result = NoResult
    /\ ncalls = [c \in Slots |-> 0]
    /\ log = [c \in Slots |-> <<>>]

\* name c = PIDController(p, i, d, setpoint)
Construct(c, g, setpoint) ==
    /\ ctl[c] = None
    /\ LET r == PIDController_init(g.p, g.i, g.d, setpoint,
                                   integrators, differentiators)
       IN  /\ ctl' = [ctl EXCEPT ![c] = r.self]
           /\ integrators' = r.integrators
           /\ differentiators' = r.differentiators
           /\ result' = [op |-> "construct", slot |-> c, status |-> r.status,
                         args |-> [gains |-> g, setpoint |-> setpoint],
                         ret |-> None]
    /\ UNCHANGED <<ncalls, log>>

\* c.gains = g
SetGains(c, g) ==
    /\ ctl[c] /= None
    /\ LET r == gains_setter(ctl[c], g)
       IN  /\ ctl' = [ctl EXCEPT ![c] = r.self]
           /\ result' = [op |-> "set_gains", slot |-> c, status |-> r.status,
                         args |-> g, ret |-> None]
    /\ UNCHANGED <<integrators, differentiators, ncalls, log>>

\* c.setpoint = setpoint (a plain attribute: any value, None included)
SetSetpoint(c, setpoint) ==
    /\ ctl[c] /= None
    /\ ctl' = [ctl EXCEPT ![c].setpoint = setpoint]
    /\ result' = [op |-> "set_setpoint", slot |-> c, status |-> "ok",
                  args |-> setpoint, ret |-> None]
    /\ UNCHANGED <<integrators, differentiators, ncalls, log>>

\* c.get_output(input_value), the clock reading current_time
GetOutput(c, input_value, current_time, limit) ==
    /\ ctl[c] /= None
    /\ ncalls[c] < limit
    /\ LET r == get_output(ctl[c], integrators, differentiators,
                           input_value, current_time)
       IN  /\ integrators' = r.integrators
           /\ differentiators' = r.differentiators
           /\ result' = [op |-> "get_output", slot |-> c, status |-> r.status,
                         args |-> [input |-> input_value, time |-> current_time],
                         ret |-> r.ret]
    /\ ncalls' = [ncalls EXCEPT ![c] = @ + 1]
    /\ UNCHANGED ctl

\* c.get_output(input_value) called directly, with the call's arguments and
\* its outcome (the returned pair, or the exception raised) added to the
\* history of calls on c
GetOutputLogged(c, input_value, current_time, limit) ==
    /\ GetOutput(c, input_value, current_time, limit)
    /\ log' = [log EXCEPT ![c] = Append(@, [args |-> result'.args,
                                            status |-> result'.status,
                                            ret |-> result'.ret])]

\* one controller: construction, both setters, get_output at any clock reading
Next ==
    \/ \E g \in GainChoices, sp \in Setpoints : Construct(1, g, sp) /\ UNCHANGED log
    \/ \E g \in GainChoices : SetGains(1, g) /\ UNCHANGED log
    \/ \E sp \in Setpoints : SetSetpoint(1, sp) /\ UNCHANGED log
    \/ \E x \in Inputs, t \in Times : GetOutput(1, x, t, MaxCalls) /\ UNCHANGED log

Spec == Init /\ [][Next]_vars

\* one controller, every gain triple of GainVals at construction and replacement
GainNext ==
    \/ \E g \in GainCube, sp \in GainSetpoints : Construct(1, g, sp) /\ UNCHANGED log
    \/ \E g \in GainCube : SetGains(1, g) /\ UNCHANGED log
    \/ \E x \in GainInputs, t \in GainTimes :
           GetOutput(1, x, t, GainMaxCalls) /\ UNCHANGED log

GainSpec == Init /\ [][GainNext]_vars

\* two controllers, built from the same arguments (slot 1 names the one built
\* first) and called in any order, before or after the other is built
PairNext ==
    \E c \in Slots :
        \/ \E g \in PairGains :
               /\ \A o \in Slots : o < c => ctl[o] /= None
               /\ Construct(c, g, PairSetpoint) /\ UNCHANGED log
        \/ \E x \in PairInputs, t \in PairTimes :
               GetOutputLogged(c, x, t, PairMaxCalls)

PairSpec == Init /\ [][PairNext]_vars

\* an Integrator driven directly
IntegratorInit ==
    \E v0 \in InitialValues :
        /\ ctl = [c \in Slots |-> None]
        /\ integrators = <<Integrator_init(v0, "center-approx")>>
        /\ differentiators = <<>>
        /\ result = NoResult
        /\ ncalls = [c \in Slots |-> 0]
        /\ log = [v0 |-> v0, calls |-> <<>>]

IntegratorCall(integrand, current_time) ==
    /\ Len(log.calls) < MaxCalls
    /\ LET r == Integrator_compute(integrators[1], integrand, current_time)
       IN  /\ integrators' = [integrators EXCEPT ![1] = r.self]
           /\ result' = [op |-> "Integrator.compute", slot |-> 0,
                         status |-> r.status,
                         args |-> [input |-> integrand, time |-> current_time],
                         ret |-> r.ret]
    /\ log' = [log EXCEPT !.calls = Append(@, [args |-> result'.args,
                                               status |-> result'.status,
                                               ret |-> result'.ret])]
    /\ UNCHANGED <<ctl, differentiators, ncalls>>

IntegratorNext ==
    \E x \in IntegratorSamples, t \in Times : IntegratorCall(x, t)

IntegratorSpec == IntegratorInit /\ [][IntegratorNext]_vars

\* a Differentiator driven directly
DifferentiatorInit ==
    \E v0 \in InitialValues :
        /\ ctl = [c \in Slots |-> None]
        /\ integrators = <<>>
        /\ differentiators = <<Differentiator_init(v0)>>
        /\ result = NoResult
        /\ ncalls = [c \in Slots |-> 0]
        /\ log = [v0 |-> v0, calls |-> <<>>]

DifferentiatorCall(current_value, current_time) ==
    /\ Len(log.calls) < MaxCalls
    /\ LET r == Differentiator_compute(differentiators[1], current_value, current_time)
       IN  /\ differentiators' = [differentiators EXCEPT ![1] = r.self]
           /\ result' = [op |-> "Differentiator.compute", slot |-> 0,
                         status |-> r.status,
                         args |-> [input |-> current_value, time |-> current_time],
                         ret |-> r.ret]
    /\ log' = [log EXCEPT !.calls = Append(@, [args |-> result'.args,
                                               status |-> result'.status,
                                               ret |-> result'.ret])]
    /\ UNCHANGED <<ctl, integrators, ncalls>>

DifferentiatorNext ==
    \E x \in DifferentiatorSamples, t \in Times : DifferentiatorCall(x, t)

DifferentiatorSpec == DifferentiatorInit /\ [][DifferentiatorNext]_vars

\* ---------------------------------------------------------------- claims
IntegratorOf(c) == integrators[ctl[c].integrator[1]]
DifferentiatorOf(c) == differentiators[ctl[c].differentiator[1]]
IsGetOutput(r) == r.op = "get_output"

\* C1: a get_output call made while the setpoint is set has the outcome of
\* (p_gain*error + i_gain*Integrator.compute(error, t)
\*  + d_gain*Differentiator.compute(error, t), error) with error = setpoint -
\* measured_value: both accumulators are fed that error and the call's own
\* timestamp, the gains are the ones the controller holds, and the call fails
\* only as the evaluation of that expression fails.
C1_Step ==
    (IsGetOutput(result') /\ ctl[result'.slot].setpoint /= None) =>
        LET c == result'.slot
            g == ctl[c].gains
            e == RSub(ctl[c].setpoint, result'.args.input)
            t == result'.args.time
            ic == Integrator_compute(IntegratorOf(c), e, t)
            dc == Differentiator_compute(DifferentiatorOf(c), e, t)
        IN  /\ integrators'[ctl[c].integrator[1]] = ic.self
            /\ differentiators'[ctl[c].differentiator[1]] = dc.self
            /\ result'.status = dc.status
            /\ dc.status = "ok" =>
                   result'.ret =
                       << RAdd(RAdd(RMul(R(g.p), e), RMul(R(g.i), ic.ret)),
                               RMul(R(g.d), dc.ret)),
                          e >>

C1_OutputLaw == [][C1_Step]_vars

\* a third call returned with the integral and the derivative both in the output
C1_Witness ==
    /\ IsGetOutput(result) /\ result.status = "ok"
    /\ ncalls[1] = 3
    /\ ctl[1].gains = Gains(2, 3, 1)
    /\ IntegratorOf(1).value /= Zero
    /\ result.ret[1] /= RMul(R(2), result.ret[2])
    /\ result.ret[1] /= RAdd(RMul(R(2), result.ret[2]),
                             RMul(R(3), IntegratorOf(1).value))

\* C2: while the setpoint is unset, get_output fails with the unset-setpoint
\* error for every measured value, wherever in the call sequence, and the
\* failed call leaves both accumulators, the gains and the setpoint unchanged.
C2_Step ==
    (IsGetOutput(result') /\ ctl[result'.slot].setpoint = None) =>
        /\ result'.status = "Exception"
        /\ result'.ret = None
        /\ integrators' = integrators
        /\ differentiators' = differentiators
        /\ ctl' = ctl

C2_UnsetSetpointFails == [][C2_Step]_vars

\* the call failed after the setpoint was set back to unset between calls
C2_Witness ==
    /\ IsGetOutput(result) /\ result.status = "Exception"
    /\ ctl[1] /= None /\ ctl[1].setpoint = None
    /\ ncalls[1] >= 2
    /\ IntegratorOf(1).last_compute_time /= None

\* C7: the very first get_output call of a controller built with a setpoint
\* returns (p_gain * error, error), error = setpoint - measured_value, whatever
\* the i and d gains.
C7_FirstCall ==
    \A c \in Slots :
        (IsGetOutput(result) /\ result.slot = c /\ ncalls[c] = 1
            /\ result.status /= "Exception") =>
            LET e == RSub(ctl[c].setpoint, result.args.input)
            IN  /\ result.status = "ok"
                /\ result.ret = <<RMul(R(ctl[c].gains.p), e), e>>

\* p=10, i=100, d=1, setpoint 1.0, measured 0.0: output 10.0, error 1.0
C7_Witness ==
    /\ IsGetOutput(result) /\ ncalls[1] = 1
    /\ ctl[1].gains = Gains(10, 100, 1) /\ ctl[1].setpoint = R(1)
    /\ result.args.input = R(0)
    /\ result.ret = <<R(10), R(1)>>

\* C9: every get_output call made while the setpoint is set, equal timestamps
\* included, leaves the Integrator's last (integrand, timestamp) and the
\* Differentiator's last (value, timestamp) both equal to that call's
\* (error, t).
C9_BothAdvance ==
    \A c \in Slots :
        (IsGetOutput(result) /\ result.slot = c /\ result.status /= "Exception") =>
            LET e == RSub(ctl[c].setpoint, result.args.input)
                t == result.args.time
            IN  /\ IntegratorOf(c).last_integrand = e
                /\ IntegratorOf(c).last_compute_time = t
                /\ DifferentiatorOf(c).last_value = e
                /\ DifferentiatorOf(c).last_time = t

\* C10: a get_output call whose timestamp equals the Differentiator's stored
\* one raises no error: it returns normally and the new sample is stored.
C10_Step ==
    (/\ IsGetOutput(result')
     /\ ctl[result'.slot].setpoint /= None
     /\ DifferentiatorOf(result'.slot).last_time = result'.args.time) =>
        /\ result'.status = "ok"
        /\ result'.ret /= None
        /\ differentiators'[ctl[result'.slot].differentiator[1]] =
               [ last_value |-> RSub(ctl[result'.slot].setpoint, result'.args.input),
                 last_time |-> result'.args.time ]

C10_ZeroIntervalReturns == [][C10_Step]_vars

\* 0 <= x <= 100 for each coefficient, written out
InClosedRange(g) ==
    /\ 0 <= g.p /\ g.p <= 100
    /\ 0 <= g.i /\ g.i <= 100
    /\ 0 <= g.d /\ g.d <= 100

\* C3: construction succeeds exactly when each of p, i, d lies in [0, 100],
\* both ends included; otherwise it fails with a validation error and there is
\* no controller.
C3_ConstructIffInRange ==
    result.op = "construct" =>
        LET c == result.slot
            g == result.args.gains
        IN  /\ result.status = "ok" <=> InClosedRange(g)
            /\ InClosedRange(g) =>
                   /\ ctl[c] /= None
                   /\ ctl[c].gains = g
                   /\ ctl[c].setpoint = result.args.setpoint
                   /\ IntegratorOf(c) = Integrator_init(Zero, "center-approx")
                   /\ DifferentiatorOf(c) = Differentiator_init(Zero)
            /\ ~InClosedRange(g) =>
                   /\ result.status = "ValueError"
                   /\ ctl[c] = None
                   /\ integrators = <<>>
                   /\ differentiators = <<>>

\* p = 0 and i = 100 are accepted, d = 101 alone makes the construction fail
C3_Witness ==
    /\ result.op = "construct"
    /\ result.args.gains = Gains(0, 100, 101)
    /\ result.status = "ValueError"
    /\ ctl[1] = None

\* a construction at both ends of the range
C3_WitnessAccepted ==
    /\ result.op = "construct"
    /\ result.args.gains = Gains(0, 100, 0)
    /\ result.status = "ok"

\* C4: replacing the gains is all-or-nothing: a triple with a coefficient
\* outside [0, 100] fails with a validation error and the controller keeps its
\* previous gains, its setpoint and both accumulators; a triple in range
\* becomes the held gains.  The held gains are always within [0, 100].
C4_HeldGainsInRange ==
    \A c \in Slots : ctl[c] /= None => InClosedRange(ctl[c].gains)

C4_Step ==
    result'.op = "set_gains" =>
        LET c == result'.slot
            g == result'.args
        IN  /\ integrators' = integrators
            /\ differentiators' = differentiators
            /\ ctl'[c].setpoint = ctl[c].setpoint
            /\ InClosedRange(g) => (result'.status = "ok" /\ ctl'[c].gains = g)
            /\ ~InClosedRange(g) => (result'.status = "ValueError" /\ ctl' = ctl)

C4_ReplaceAllOrNothing == []C4_HeldGainsInRange /\ [][C4_Step]_vars

\* a replacement with one coefficient out of range was refused after a call
C4_Witness ==
    /\ result.op = "set_gains"
    /\ result.args = Gains(2, 100, 101)
    /\ result.status = "ValueError"
    /\ ctl[1].gains = Gains(100, 0, 2)
    /\ ncalls[1] >= 1
    /\ IntegratorOf(1).last_compute_time /= None

\* C8: two controllers built with the same gains and setpoint and fed the same
\* (measured_value, timestamp) pairs return the same outcomes, call by call,
\* in any interleaving; an operation on one controller leaves the other
\* controller and its accumulators unchanged.
SameFeed(k) == \A j \in 1..k : log[1][j].args = log[2][j].args
SameOutcome(k) ==
    \A j \in 1..k : /\ log[1][j].status = log[2][j].status
                    /\ log[1][j].ret = log[2][j].ret

C8_Determinism ==
    (/\ ctl[1] /= None /\ ctl[2] /= None
     /\ ctl[1].gains = ctl[2].gains /\ ctl[1].setpoint = ctl[2].setpoint) =>
        \A k \in 1..Len(log[1]) :
            (k <= Len(log[2]) /\ SameFeed(k)) => SameOutcome(k)

C8_Step ==
    \A c \in Slots :
        (result'.slot = c /\ result'.op \in {"construct", "get_output"}) =>
            \A o \in Slots \ {c} :
                ctl[o] /= None =>
                    /\ ctl'[o] = ctl[o]
                    /\ integrators'[ctl[o].integrator[1]] = IntegratorOf(o)
                    /\ differentiators'[ctl[o].differentiator[1]] = DifferentiatorOf(o)
                    /\ log'[o] = log[o]

C8_DeterministicAndIsolated == []C8_Determinism /\ [][C8_Step]_vars

\* both controllers were fed the same two calls and the second one returned
C8_Witness ==
    /\ Len(log[1]) = 2 /\ Len(log[2]) = 2
    /\ SameFeed(2)
    /\ log[1][1].args.input /= log[1][2].args.input
    /\ log[1][2].status = "ok"
    /\ IntegratorOf(1).value /= Zero
    /\ IntegratorOf(2).value = IntegratorOf(1).value

\* sum over j = 2..k of (x_j + x_(j-1)) * (t_j - t_(j-1)), for integer samples:
\* twice the midpoint sum
RECURSIVE TwiceMidpointSum(_, _)
TwiceMidpointSum(calls, k) ==
    IF k <= 1 THEN 0
    ELSE TwiceMidpointSum(calls, k - 1)
         + (calls[k].args.input[1] + calls[k - 1].args.input[1])
           * (calls[k].args.time[1] - calls[k - 1].args.time[1])

\* C5: an Integrator created with v0 returns v0 on its first call whatever the
\* integrand, and on its k-th call v0 plus the sum over j = 2..k of
\* 0.5*(x_j + x_(j-1))*(t_j - t_(j-1)), for increasing, equal and decreasing
\* timestamps alike; no call is rejected.
C5_MidpointSum ==
    \A k \in 1..Len(log.calls) :
        /\ log.calls[k].status = "ok"
        /\ log.calls[k].ret = RAdd(log.v0, Norm(TwiceMidpointSum(log.calls, k), 2))

\* 2.0 at t0, 4.0 at t0+1, -1.0 back at t0: 0.0, then 3.0, then 3.0 - 1.5
C5_Witness ==
    /\ log.v0 = Zero
    /\ Len(log.calls) = 3
    /\ log.calls[1].args = [input |-> R(2), time |-> datetime(0)]
    /\ log.calls[2].args = [input |-> R(4), time |-> datetime(1)]
    /\ log.calls[3].args = [input |-> R(-1), time |-> datetime(0)]
    /\ log.calls[1].ret = Zero
    /\ log.calls[2].ret = R(3)
    /\ log.calls[3].ret = <<3, 2>>

\* an equal timestamp added nothing to a non-zero initial value
C5_WitnessEqualTime ==
    /\ log.v0 = R(7)
    /\ Len(log.calls) = 2
    /\ log.calls[1].args.time = log.calls[2].args.time
    /\ log.calls[2].ret = R(7)

DistinctConsecutive(calls, k) ==
    \A j \in 2..k : calls[j].args.time /= calls[j - 1].args.time

\* C6: a Differentiator created with v0, called at consecutive distinct
\* timestamps, returns v0 on its first call and on every later call the slope
\* (x_k - x_(k-1)) / (t_k - t_(k-1)) against the call just before, whose
\* sample it then overwrites with (x_k, t_k).
C6_SecantSlope ==
    \A k \in 1..Len(log.calls) :
        DistinctConsecutive(log.calls, k) =>
            /\ log.calls[k].status = "ok"
            /\ k = 1 => log.calls[k].ret = log.v0
            /\ k > 1 =>
                   RMul(log.calls[k].ret,
                        R(log.calls[k].args.time[1] - log.calls[k - 1].args.time[1]))
                   = RSub(log.calls[k].args.input, log.calls[k - 1].args.input)
            /\ k = Len(log.calls) =>
                   differentiators[1] = [ last_value |-> log.calls[k].args.input,
                                          last_time |-> log.calls[k].args.time ]

\* v0 = 7, then 5.0 at t0 and 9.0 at t0+2: 7, then 2.0; then -1.0 at t0+1: 10
C6_Witness ==
    /\ log.v0 = R(7)
    /\ Len(log.calls) = 3
    /\ log.calls[1].args = [input |-> R(5), time |-> datetime(0)]
    /\ log.calls[2].args = [input |-> R(9), time |-> datetime(2)]
    /\ log.calls[3].args = [input |-> R(-1), time |-> datetime(1)]
    /\ log.calls[1].ret = R(7)
    /\ log.calls[2].ret = R(2)
    /\ log.calls[3].ret = R(10)

====
